---- MODULE Spec2Model ----
(***************************************************************************)
(* Pong.ino: single player against the CPU on a 128x32 display.  One step  *)
(* of the model is one call of loop().  The objects of the sketch are the  *)
(* records ball, player and cpu; analogRead() and rand() are the inputs of *)
(* a tick.                                                                 *)
(***************************************************************************)
EXTENDS Integers, Sequences, FiniteSets, TLC

\* enum class GameInvariants
Width == 128
Height == 32
MaxScore == 4

\* Paddle::width, Paddle::height, Ball::width, Ball::height
PaddleWidth == 2
PaddleHeight == 9
BallWidth == 2
BallHeight == 2

\* Ball::horizontalSpeed, Ball::verticalSpeed as constructed
InitHorizontalSpeed == 4
InitVerticalSpeed == 2

\* analogRead() returns a value in [0, AnalogMax]
AnalogMax == 1023

\* The number of evenly spaced potentiometer samples a tick chooses from.
NumSamples == 2

VARIABLES
    currentState,   \* GameState: "Running" or "GameOver"
    player,         \* GameObject: [paddle |-> position, score |-> score]
    cpu,            \* GameObject
    ball,           \* Ball: [x, y, horizontalSpeed, verticalSpeed]
    branch,         \* the branch of collisionResolution() the last call took
    args,           \* the inputs of the last step: <<AI target, analog sample>>
                    \* for loop(), the arguments for a direct call
    message,        \* the text loop() printed last ("" for none)
    calls           \* number of direct calls made by a unit harness

vars == <<currentState, player, cpu, ball, branch, args, message, calls>>

----------------------------------------------------------------------------
\* Paddle::setPosition

PaddleSetPositionNoUpperBound(position, pos) ==
    IF pos < 0 THEN position ELSE pos

PaddleSetPositionSaturating(position, pos) ==
    IF pos < 0 THEN 0 ELSE IF pos > Height THEN Height ELSE pos

PaddleSetPosition(position, pos) ==
    IF pos < 0 \/ pos > Height THEN position ELSE pos

\* Score::increase

ScoreIncreaseUncapped(score) == score + 1

ScoreIncreaseForgotten(score) == score

ScoreIncrease(score) ==
    IF score + 1 > MaxScore THEN score ELSE score + 1

\* Ball::reset: the guard reads the position the ball has before the reset

BallResetStrictBounds(b, posX, posY) ==
    IF b.x < 0 \/ b.x >= Width \/ b.y < 0 \/ b.y >= Height
    THEN b
    ELSE [b EXCEPT !.x = posX, !.y = posY]

BallResetUnguarded(b, posX, posY) ==
    [b EXCEPT !.x = posX, !.y = posY]

BallReset(b, posX, posY) ==
    IF b.x < 0 \/ b.x > Width \/ b.y < 0 \/ b.y > Height
    THEN b
    ELSE [b EXCEPT !.x = posX, !.y = posY]

\* Ball::update

BallUpdate(b) ==
    [b EXCEPT !.x = b.x + b.horizontalSpeed, !.y = b.y + b.verticalSpeed]

\* Ball::flipVerticalDir, Ball::flipHorizontalDir

BallFlipVerticalDir(b) == [b EXCEPT !.verticalSpeed = b.verticalSpeed * (-1)]

BallFlipHorizontalDir(b) == [b EXCEPT !.horizontalSpeed = b.horizontalSpeed * (-1)]

----------------------------------------------------------------------------
PositionFromPotentiometerRounded(potentiometerData) ==
    (2 * 23 * potentiometerData + AnalogMax) \div (2 * AnalogMax)

\* positionFromPotentiometer: potentiometerData * (23.0 / 1023.0), converted
\* to int (truncation).  23.0 / 1023.0 is a floating-point constant; in the
\* 32-bit format avr-gcc uses for double it is
\* (RatioHigh * 4096 + RatioLow) / 2^27, slightly above 23/1023.  The product
\* is formed in two parts so that no intermediate value exceeds 2^31.

RatioHigh == 736
RatioLow == 2947

PositionFromPotentiometer(potentiometerData) ==
    (potentiometerData * RatioHigh + (potentiometerData * RatioLow) \div 4096) \div 32768

\* aiPosition: ball.getY() + randDir * randDisplacement

RandDir == {1, -1}
RandDisplacement == 0..3

AiPosition(b, randDir, randDisplacement) == b.y + randDir * randDisplacement

----------------------------------------------------------------------------
\* collisionResolution: the conditions of its branches

VerticalCollisionStrict(b) == b.y > Height - BallHeight \/ b.y < 0

VerticalCollision(b) == b.y >= Height - BallHeight \/ b.y < 0

PlayerGoalLate(b) == b.x > Width /\ b.horizontalSpeed > 0

PlayerGoal(b) == b.x >= Width - BallWidth /\ b.horizontalSpeed > 0

CpuGoal(b) == b.x < 0 /\ b.horizontalSpeed < 0

AtPlayerPaddle(b) ==
    /\ b.x >= PaddleWidth
    /\ b.x <= PaddleWidth + BallWidth
    /\ b.horizontalSpeed < 0

\* the player paddle with the bound above its top edge included
HitsPlayerPaddleInclusive(b, position) ==
    b.y >= position - 4 /\ b.y < position + PaddleHeight

HitsPlayerPaddle(b, position) ==
    b.y > position - 4 /\ b.y < position + PaddleHeight

AtCpuPaddle(b) ==
    /\ b.x >= Width - PaddleWidth - BallWidth
    /\ b.x <= Width - PaddleWidth
    /\ b.horizontalSpeed > 0

\* the CPU paddle checked with the player paddle's tolerance
HitsCpuPaddlePlayerTolerance(b, position) ==
    b.y > position - 4 /\ b.y < position + PaddleHeight

\* the CPU paddle with the bound above its top edge included
HitsCpuPaddleInclusive(b, position) ==
    b.y >= position - 2 /\ b.y < position + PaddleHeight

HitsCpuPaddle(b, position) ==
    b.y > position - 2 /\ b.y < position + PaddleHeight

\* the state after a goal: GameOver when the scorer reached MaxScore
StateAfterGoalNever(state, score) ==
    IF score > MaxScore THEN "GameOver" ELSE state

StateAfterGoalEarly(state, score) ==
    IF score >= MaxScore - 1 THEN "GameOver" ELSE state

StateAfterGoal(state, score) ==
    IF score = MaxScore THEN "GameOver" ELSE state

\* collisionResolution with the paddle checks as separate `if`s whose
\* conditions are those the ball met on entry
CollisionResolutionUnchained(g) ==
    LET b1 == IF VerticalCollision(g.ball) THEN BallFlipVerticalDir(g.ball) ELSE g.ball
        hit == \/ AtPlayerPaddle(b1) /\ HitsPlayerPaddle(b1, g.player.paddle)
               \/ AtCpuPaddle(b1) /\ HitsCpuPaddle(b1, g.cpu.paddle)
        paddles(b) == IF hit THEN BallFlipHorizontalDir(b) ELSE b
    IN  IF PlayerGoal(b1)
        THEN LET s == ScoreIncrease(g.player.score)
             IN [currentState |-> StateAfterGoal(g.currentState, s),
                 player |-> [g.player EXCEPT !.score = s],
                 cpu |-> g.cpu,
                 ball |-> paddles(BallFlipHorizontalDir(
                              BallReset(b1, 3 * (Width \div 4), Height \div 2))),
                 branch |-> "playerGoal"]
        ELSE IF CpuGoal(b1)
        THEN LET s == ScoreIncrease(g.cpu.score)
             IN [currentState |-> StateAfterGoal(g.currentState, s),
                 player |-> g.player,
                 cpu |-> [g.cpu EXCEPT !.score = s],
                 ball |-> paddles(BallFlipHorizontalDir(
                              BallReset(b1, Width \div 4, Height \div 2))),
                 branch |-> "cpuGoal"]
        ELSE [currentState |-> g.currentState, player |-> g.player, cpu |-> g.cpu,
              ball |-> paddles(b1),
              branch |-> IF AtPlayerPaddle(b1) THEN "playerPaddle"
                         ELSE IF AtCpuPaddle(b1) THEN "cpuPaddle" ELSE "none"]

\* collisionResolution without flipHorizontalDir() in the goal branches
CollisionResolutionNoTurnOnGoal(g) ==
    LET b1 == IF VerticalCollision(g.ball) THEN BallFlipVerticalDir(g.ball) ELSE g.ball
    IN  IF PlayerGoal(b1)
        THEN LET s == ScoreIncrease(g.player.score)
             IN [currentState |-> StateAfterGoal(g.currentState, s),
                 player |-> [g.player EXCEPT !.score = s],
                 cpu |-> g.cpu,
                 ball |-> BallReset(b1, 3 * (Width \div 4), Height \div 2),
                 branch |-> "playerGoal"]
        ELSE IF CpuGoal(b1)
        THEN LET s == ScoreIncrease(g.cpu.score)
             IN [currentState |-> StateAfterGoal(g.currentState, s),
                 player |-> g.player,
                 cpu |-> [g.cpu EXCEPT !.score = s],
                 ball |-> BallReset(b1, Width \div 4, Height \div 2),
                 branch |-> "cpuGoal"]
        ELSE IF AtPlayerPaddle(b1)
        THEN [currentState |-> g.currentState, player |-> g.player, cpu |-> g.cpu,
              ball |-> IF HitsPlayerPaddle(b1, g.player.paddle)
                       THEN BallFlipHorizontalDir(b1) ELSE b1,
              branch |-> "playerPaddle"]
        ELSE IF AtCpuPaddle(b1)
        THEN [currentState |-> g.currentState, player |-> g.player, cpu |-> g.cpu,
              ball |-> IF HitsCpuPaddle(b1, g.cpu.paddle)
                       THEN BallFlipHorizontalDir(b1) ELSE b1,
              branch |-> "cpuPaddle"]
        ELSE [currentState |-> g.currentState, player |-> g.player, cpu |-> g.cpu,
              ball |-> b1, branch |-> "none"]

\* collisionResolution on the game g = [currentState, player, cpu, ball];
\* the result carries the branch taken.
CollisionResolution(g) ==
    LET b1 == IF VerticalCollision(g.ball) THEN BallFlipVerticalDir(g.ball) ELSE g.ball
    IN  IF PlayerGoal(b1)
        THEN LET s == ScoreIncrease(g.player.score)
             IN [currentState |-> StateAfterGoal(g.currentState, s),
                 player |-> [g.player EXCEPT !.score = s],
                 cpu |-> g.cpu,
                 ball |-> BallFlipHorizontalDir(BallReset(b1, 3 * (Width \div 4), Height \div 2)),
                 branch |-> "playerGoal"]
        ELSE IF CpuGoal(b1)
        THEN LET s == ScoreIncrease(g.cpu.score)
             IN [currentState |-> StateAfterGoal(g.currentState, s),
                 player |-> g.player,
                 cpu |-> [g.cpu EXCEPT !.score = s],
                 ball |-> BallFlipHorizontalDir(BallReset(b1, Width \div 4, Height \div 2)),
                 branch |-> "cpuGoal"]
        ELSE IF AtPlayerPaddle(b1)
        THEN [currentState |-> g.currentState, player |-> g.player, cpu |-> g.cpu,
              ball |-> IF HitsPlayerPaddle(b1, g.player.paddle)
                       THEN BallFlipHorizontalDir(b1) ELSE b1,
              branch |-> "playerPaddle"]
        ELSE IF AtCpuPaddle(b1)
        THEN [currentState |-> g.currentState, player |-> g.player, cpu |-> g.cpu,
              ball |-> IF HitsCpuPaddle(b1, g.cpu.paddle)
                       THEN BallFlipHorizontalDir(b1) ELSE b1,
              branch |-> "cpuPaddle"]
        ELSE [currentState |-> g.currentState, player |-> g.player, cpu |-> g.cpu,
              ball |-> b1, branch |-> "none"]

----------------------------------------------------------------------------
\* The sketch's globals after construction

Init ==
    /\ currentState = "Running"
    /\ player = [paddle |-> 0, score |-> 0]
    /\ cpu = [paddle |-> 0, score |-> 0]
    /\ ball = [x |-> Width \div 2, y |-> Height \div 2,
               horizontalSpeed |-> InitHorizontalSpeed,
               verticalSpeed |-> InitVerticalSpeed]
    /\ branch = "start"
    /\ args = <<0, 0>>
    /\ message = ""
    /\ calls = 0

\* the potentiometer samples a tick chooses from: evenly spaced over
\* [0, AnalogMax], both ends included
Samples == {(i * AnalogMax) \div (NumSamples - 1) : i \in 0..(NumSamples - 1)}

\* loop() with the ball advanced before the collisions are resolved
LoopRunningUpdateFirst(potentiometerData, target) ==
    /\ currentState = "Running"
    /\ LET c1 == [cpu EXCEPT !.paddle = PaddleSetPosition(cpu.paddle, target)]
           p1 == [player EXCEPT !.paddle =
                      PaddleSetPosition(player.paddle,
                                        PositionFromPotentiometer(potentiometerData))]
       IN  \E g \in {CollisionResolution([currentState |-> currentState, player |-> p1,
                                          cpu |-> c1, ball |-> BallUpdate(ball)])} :
               /\ currentState' = g.currentState
               /\ player' = g.player
               /\ cpu' = g.cpu
               /\ ball' = g.ball
               /\ branch' = g.branch
    /\ args' = <<target, potentiometerData>>
    /\ message' = ""
    /\ UNCHANGED calls

\* loop() while Running, with the value analogRead() delivers and the target
\* aiPosition() returns
LoopRunning(potentiometerData, target) ==
    /\ currentState = "Running"
    /\ LET c1 == [cpu EXCEPT !.paddle = PaddleSetPosition(cpu.paddle, target)]
           p1 == [player EXCEPT !.paddle =
                      PaddleSetPosition(player.paddle,
                                        PositionFromPotentiometer(potentiometerData))]
       IN  \E g \in {CollisionResolution([currentState |-> currentState, player |-> p1,
                                          cpu |-> c1, ball |-> ball])} :
               /\ currentState' = g.currentState
               /\ player' = g.player
               /\ cpu' = g.cpu
               /\ ball' = BallUpdate(g.ball)
               /\ branch' = g.branch
    /\ args' = <<target, potentiometerData>>
    /\ message' = ""
    /\ UNCHANGED calls

\* loop() while GameOver: only the message is printed
LoopGameOverMovesBall ==
    /\ currentState = "GameOver"
    /\ message' = IF player.score = MaxScore THEN "Winner!"
                  ELSE IF cpu.score = MaxScore THEN "Loser!"
                  ELSE ""
    /\ branch' = "gameOver"
    /\ ball' = BallUpdate(ball)
    /\ UNCHANGED <<currentState, player, cpu, args, calls>>

LoopGameOver ==
    /\ currentState = "GameOver"
    /\ message' = IF player.score = MaxScore THEN "Winner!"
                  ELSE IF cpu.score = MaxScore THEN "Loser!"
                  ELSE ""
    /\ branch' = "gameOver"
    /\ UNCHANGED <<currentState, player, cpu, ball, args, calls>>

\* the targets aiPosition() can return for the ball b
AiTargets(b) ==
    {AiPosition(b, randDir, randDisplacement) :
        randDir \in RandDir, randDisplacement \in RandDisplacement}

Tick ==
    \E potentiometerData \in Samples, target \in AiTargets(ball) :
        LoopRunning(potentiometerData, target)

Next ==
    \/ Tick
    \/ LoopGameOver

Spec == Init /\ [][Next]_vars

----------------------------------------------------------------------------
\* The game with loop() called for ever, a player who can keep a rally going,
\* and a fair jitter

\* three potentiometer samples, for the paddle positions 0, 11 and 23: at
\* every height of the ball at the player paddle, one of the three positions
\* returns the ball and another one lets it pass
RallySamples == {0, 511, AnalogMax}

\* the jitters randDir * randDisplacement of aiPosition()
Jitters ==
    {randDir * randDisplacement :
        randDir \in RandDir, randDisplacement \in RandDisplacement}

\* a jitter with which the CPU paddle, set below the ball, lets the ball pass
MissingJitter == 2

\* two of the jitters: with 0 the CPU paddle is set at the ball and returns
\* it, with MissingJitter it lets the ball pass
RallyJitters == Jitters \cap {0, MissingJitter}

TickRally ==
    \E potentiometerData \in RallySamples, d \in RallyJitters :
        LoopRunning(potentiometerData, ball.y + d)

NextRally ==
    \/ TickRally
    \/ LoopGameOver

\* a tick with the ball at the CPU paddle, moving right, in which aiPosition()
\* draws the jitter d
JitterTick(d) ==
    /\ AtCpuPaddle(ball)
    /\ \E potentiometerData \in RallySamples :
          LoopRunning(potentiometerData, ball.y + d)

\* loop() is called again and again
SpecLoop == Init /\ [][NextRally]_vars /\ WF_vars(NextRally)

\* and the jitter MissingJitter is drawn again and again in the ticks with the
\* ball at the CPU paddle, moving right: the least of the fairness needed, a
\* game in which every jitter is drawn again and again there is one of these
SpecFair == SpecLoop /\ SF_vars(JitterTick(MissingJitter))

----------------------------------------------------------------------------
\* Direct calls of collisionResolution() and Ball::reset() on configurations
\* that need not be reachable in a game

\* how far outside the playfield and the paddle columns a configuration may lie
Margin == 4

\* direct calls made on one configuration
MaxCalls == 1

HarnessX ==
    ((0 - Margin)..(PaddleWidth + BallWidth + Margin))
        \cup ((Width - PaddleWidth - BallWidth - Margin)..(Width + Margin))

HarnessY ==
    ((0 - Margin)..Margin) \cup ((Height - BallHeight - Margin)..(Height + Margin))

HarnessPaddles == {0, Height - PaddleHeight}

HarnessScores == {0, MaxScore - 1, MaxScore}

InitColl ==
    /\ currentState = "Running"
    /\ player \in [paddle : HarnessPaddles, score : HarnessScores]
    /\ cpu \in [paddle : HarnessPaddles, score : HarnessScores]
    /\ ball \in [x : HarnessX, y : HarnessY,
                 horizontalSpeed : {InitHorizontalSpeed, -InitHorizontalSpeed},
                 verticalSpeed : {InitVerticalSpeed, -InitVerticalSpeed}]
    /\ branch = "start"
    /\ args = <<0, 0>>
    /\ message = ""
    /\ calls = 0

\* collisionResolution(); args records the position the ball had at the call
CallCollisionResolution ==
    /\ calls < MaxCalls
    /\ \E g \in {CollisionResolution([currentState |-> currentState, player |-> player,
                                      cpu |-> cpu, ball |-> ball])} :
           /\ currentState' = g.currentState
           /\ player' = g.player
           /\ cpu' = g.cpu
           /\ ball' = g.ball
           /\ branch' = g.branch
    /\ args' = <<ball.x, ball.y>>
    /\ calls' = calls + 1
    /\ UNCHANGED message

\* ball.reset(posX, posY) with the arguments collisionResolution() passes
CallBallReset ==
    /\ calls < MaxCalls
    /\ \E posX \in {Width \div 4, 3 * (Width \div 4)}, posY \in {Height \div 2} :
          /\ ball' = BallReset(ball, posX, posY)
          /\ args' = <<posX, posY>>
    /\ branch' = "reset"
    /\ calls' = calls + 1
    /\ UNCHANGED <<currentState, player, cpu, message>>

NextColl ==
    \/ CallCollisionResolution
    \/ CallBallReset

SpecColl == InitColl /\ [][NextColl]_vars

----------------------------------------------------------------------------
\* One tick of loop() on a ball standing in a paddle column, at every height
\* and for every paddle position the potentiometer can select

\* one analog sample for each position positionFromPotentiometer() returns
PaddleSamples ==
    {CHOOSE s \in 0..AnalogMax : PositionFromPotentiometer(s) = pos :
        pos \in {PositionFromPotentiometer(s) : s \in 0..AnalogMax}}

ColumnX ==
    (PaddleWidth..(PaddleWidth + BallWidth))
        \cup ((Width - PaddleWidth - BallWidth)..(Width - PaddleWidth))

InitTick ==
    /\ currentState = "Running"
    /\ player = [paddle |-> 0, score |-> 0]
    /\ cpu \in [paddle : HarnessPaddles, score : {0}]
    /\ ball \in [x : ColumnX, y : (0 - BallHeight)..(Height - BallHeight),
                 horizontalSpeed : {InitHorizontalSpeed, -InitHorizontalSpeed},
                 verticalSpeed : {InitVerticalSpeed, -InitVerticalSpeed}]
    /\ branch = "start"
    /\ args = <<0, 0>>
    /\ message = ""
    /\ calls = 0

TickOnce ==
    /\ branch = "start"
    /\ \E potentiometerData \in PaddleSamples, target \in AiTargets(ball) :
          LoopRunning(potentiometerData, target)

SpecTick == InitTick /\ [][TickOnce]_vars

----------------------------------------------------------------------------
\* Direct calls of Score::increase() on the two scores, from 0:0

\* calls of increase() made on one score
MaxIncreases == 10

\* args counts the calls made on the player's and on the CPU's score
CallIncreasePlayer ==
    /\ args[1] < MaxIncreases
    /\ player' = [player EXCEPT !.score = ScoreIncrease(player.score)]
    /\ args' = <<args[1] + 1, args[2]>>
    /\ branch' = "increase"
    /\ calls' = calls + 1
    /\ UNCHANGED <<currentState, cpu, ball, message>>

CallIncreaseCpu ==
    /\ args[2] < MaxIncreases
    /\ cpu' = [cpu EXCEPT !.score = ScoreIncrease(cpu.score)]
    /\ args' = <<args[1], args[2] + 1>>
    /\ branch' = "increase"
    /\ calls' = calls + 1
    /\ UNCHANGED <<currentState, player, ball, message>>

NextScore ==
    \/ CallIncreasePlayer
    \/ CallIncreaseCpu

SpecScore == Init /\ [][NextScore]_vars

----------------------------------------------------------------------------
\* player.paddle.setPosition(positionFromPotentiometer()) for every value
\* analogRead() can return

\* readings taken
MaxReads == 1

ReadInput ==
    /\ calls < MaxReads
    /\ \E potentiometerData \in 0..AnalogMax :
          /\ player' = [player EXCEPT !.paddle =
                            PaddleSetPosition(player.paddle,
                                              PositionFromPotentiometer(potentiometerData))]
          /\ args' = <<potentiometerData, 0>>
    /\ branch' = "input"
    /\ calls' = calls + 1
    /\ UNCHANGED <<currentState, cpu, ball, message>>

SpecInput == Init /\ [][ReadInput]_vars

----------------------------------------------------------------------------
\* Properties of the game, Spec

\* C1: the tick in which a score becomes MaxScore is the tick in which
\* currentState becomes GameOver (and the other way round), and no tick
\* taken in GameOver changes a score.
C1_WinOnScoringTick ==
    [][/\ ((player'.score = MaxScore /\ player.score # MaxScore)
              \/ (cpu'.score = MaxScore /\ cpu.score # MaxScore))
          <=> (currentState = "Running" /\ currentState' = "GameOver")
       /\ currentState = "GameOver"
          => (player'.score = player.score /\ cpu'.score = cpu.score)]_vars

C1_Witness ==
    /\ currentState = "GameOver"
    /\ branch = "gameOver"
    /\ player.score = MaxScore
    /\ cpu.score = MaxScore - 1

\* C2: GameOver is absorbing, and a tick in GameOver changes neither the
\* ball (position and speeds), nor a paddle, nor a score.
C2_GameOverAbsorbing ==
    [][currentState = "GameOver"
       => /\ currentState' = "GameOver"
          /\ ball' = ball
          /\ player' = player
          /\ cpu' = cpu]_vars

C2_Witness ==
    /\ currentState = "GameOver"
    /\ branch = "gameOver"
    /\ message = "Loser!"

\* C3 (as claimed): in a Running tick that takes the left-goal branch the CPU
\* score is incremented, the ball is put at (Width/4, Height/2) before it is
\* advanced, and the horizontal speed becomes positive.
C3_LeftGoalResets ==
    [][(currentState = "Running" /\ CpuGoal(ball))
       => /\ cpu'.score = cpu.score + 1
          /\ ball'.horizontalSpeed > 0
          /\ ball'.x = Width \div 4 + ball'.horizontalSpeed
          /\ ball'.y = Height \div 2 + ball'.verticalSpeed]_vars

\* C4: in a Running tick that takes the right-goal branch the player score
\* is incremented, the ball is put at (3*Width/4, Height/2) before it is
\* advanced, and the horizontal speed becomes negative; the ball is inside
\* Ball::reset's bounds whenever that branch is taken.
C4_RightGoalResets ==
    [][(currentState = "Running" /\ PlayerGoal(ball))
       => /\ 0 <= ball.x /\ ball.x <= Width /\ 0 <= ball.y /\ ball.y <= Height
          /\ player'.score = player.score + 1
          /\ cpu'.score = cpu.score
          /\ branch' = "playerGoal"
          /\ ball'.horizontalSpeed < 0
          /\ ball'.x = 3 * (Width \div 4) + ball'.horizontalSpeed
          /\ ball'.y = Height \div 2 + ball'.verticalSpeed]_vars

C4_Witness ==
    /\ branch = "playerGoal"
    /\ player.score = 1
    /\ ball.x = 92
    /\ ball.horizontalSpeed = -4
    /\ ball.y \in {14, 18}

\* C5: at every tick boundary currentState is GameOver exactly when exactly
\* one score equals MaxScore; the scores are never both MaxScore, and the
\* message printed in GameOver is Winner! or Loser!, by the score at MaxScore.
C5_GameOverIffOneWinner ==
    /\ currentState \in {"Running", "GameOver"}
    /\ (currentState = "GameOver")
       <=> ((player.score = MaxScore) # (cpu.score = MaxScore))
    /\ ~(player.score = MaxScore /\ cpu.score = MaxScore)
    /\ branch = "gameOver"
       => /\ message \in {"Winner!", "Loser!"}
          /\ message = "Winner!" <=> player.score = MaxScore
          /\ message = "Loser!" <=> cpu.score = MaxScore

C5_Witness ==
    /\ branch = "gameOver"
    /\ message = "Winner!"
    /\ cpu.score = 0

\* C8: a Running tick sets each paddle to the position requested when that
\* position is in [0, Height] and keeps the previous position otherwise;
\* both paddles are in [0, Height] in every reachable state.
C8_PaddleClamp ==
    /\ [][currentState = "Running"
          => LET target == args'[1]
                 pos == PositionFromPotentiometer(args'[2])
             IN  /\ cpu'.paddle = IF 0 <= target /\ target <= Height
                                  THEN target ELSE cpu.paddle
                 /\ player'.paddle = IF 0 <= pos /\ pos <= Height
                                     THEN pos ELSE player.paddle]_vars
    /\ [](/\ 0 <= player.paddle /\ player.paddle <= Height
          /\ 0 <= cpu.paddle /\ cpu.paddle <= Height)

C8_Witness ==
    /\ branch # "start"
    /\ args[1] = Height + 1
    /\ cpu.paddle = Height - 1

----------------------------------------------------------------------------
\* Properties of the direct calls

\* what Score::increase is to do with a score
Incremented(score) == IF score < MaxScore THEN score + 1 ELSE score

InsidePlayfield(b) == 0 <= b.x /\ b.x <= Width /\ 0 <= b.y /\ b.y <= Height

\* C6: on every configuration one call of collisionResolution() has the
\* effect of at most one of the four horizontal outcomes: the two scores
\* together grow by at most 1, a goal negates the horizontal speed once, a
\* paddle check negates it once exactly on a hit and changes no score, and
\* without an outcome neither the horizontal speed nor a score changes.
C6_OneHorizontalOutcome ==
    [][(calls' = calls + 1 /\ branch' # "reset")
       => LET dp == player'.score - player.score
              dc == cpu'.score - cpu.score
              flipped == ball'.horizontalSpeed = 0 - ball.horizontalSpeed
              kept == ball'.horizontalSpeed = ball.horizontalSpeed
          IN  /\ dp \in {0, 1} /\ dc \in {0, 1} /\ dp + dc <= 1
              /\ flipped \/ kept
              /\ branch' \in {"playerGoal", "cpuGoal", "playerPaddle", "cpuPaddle", "none"}
              /\ branch' = "playerGoal" => flipped /\ dc = 0
              /\ branch' = "cpuGoal" => flipped /\ dp = 0
              /\ branch' = "playerPaddle"
                 => dp + dc = 0 /\ (flipped <=> HitsPlayerPaddle(ball, player.paddle))
              /\ branch' = "cpuPaddle"
                 => dp + dc = 0 /\ (flipped <=> HitsCpuPaddle(ball, cpu.paddle))
              /\ branch' = "none" => dp + dc = 0 /\ kept
              /\ dp + dc = 1 => branch' \in {"playerGoal", "cpuGoal"}]_vars

\* the right goal was taken on a ball that also stood at the CPU paddle and
\* within its reach
C6_Witness ==
    /\ calls = 1
    /\ branch = "playerGoal"
    /\ args[1] = Width - BallWidth
    /\ args[2] > cpu.paddle - 2 /\ args[2] < cpu.paddle + PaddleHeight
    /\ ball.horizontalSpeed < 0
    /\ player.score = 1

\* C7: Ball::reset puts the ball at (posX, posY) exactly when the ball is
\* inside [0, Width] x [0, Height] and leaves x and y alone otherwise, the
\* speeds in both cases; collisionResolution() increments the score and
\* negates the horizontal speed also when the reset was skipped.
C7_ResetGuard ==
    [][calls' = calls + 1
       => /\ branch' = "reset"
             => /\ InsidePlayfield(ball) => ball'.x = args'[1] /\ ball'.y = args'[2]
                /\ ~InsidePlayfield(ball) => ball'.x = ball.x /\ ball'.y = ball.y
                /\ ball'.horizontalSpeed = ball.horizontalSpeed
                /\ ball'.verticalSpeed = ball.verticalSpeed
          /\ branch' = "playerGoal"
             => /\ InsidePlayfield(ball)
                   => ball'.x = 3 * (Width \div 4) /\ ball'.y = Height \div 2
                /\ ~InsidePlayfield(ball) => ball'.x = ball.x /\ ball'.y = ball.y
                /\ player'.score = Incremented(player.score)
                /\ ball'.horizontalSpeed = 0 - ball.horizontalSpeed
          /\ branch' = "cpuGoal"
             => /\ InsidePlayfield(ball)
                   => ball'.x = Width \div 4 /\ ball'.y = Height \div 2
                /\ ~InsidePlayfield(ball) => ball'.x = ball.x /\ ball'.y = ball.y
                /\ cpu'.score = Incremented(cpu.score)
                /\ ball'.horizontalSpeed = 0 - ball.horizontalSpeed]_vars

\* the reset was skipped on a ball past the left goal, the CPU scored and the
\* ball was turned
C7_Witness ==
    /\ calls = 1
    /\ branch = "cpuGoal"
    /\ ball.x < 0
    /\ args = <<ball.x, ball.y>>
    /\ ball.horizontalSpeed > 0
    /\ cpu.score = 1

\* C9: both scores stay in [0, MaxScore] and never decrease; a call of
\* Score::increase adds 1 below MaxScore and nothing at MaxScore, so after n
\* calls from 0 the score is the smaller of n and MaxScore.
C9_ScoreSaturates ==
    /\ [](/\ 0 <= player.score /\ player.score <= MaxScore
          /\ 0 <= cpu.score /\ cpu.score <= MaxScore
          /\ player.score = IF args[1] < MaxScore THEN args[1] ELSE MaxScore
          /\ cpu.score = IF args[2] < MaxScore THEN args[2] ELSE MaxScore)
    /\ [][/\ player'.score >= player.score
          /\ cpu'.score >= cpu.score
          /\ args'[1] = args[1] + 1 => player'.score = Incremented(player.score)
          /\ args'[2] = args[2] + 1 => cpu'.score = Incremented(cpu.score)]_vars

\* increase() was called on a score at MaxScore
C9_Witness ==
    /\ args[1] = MaxScore + 1
    /\ player.score = MaxScore
    /\ args[2] = MaxScore
    /\ cpu.score = MaxScore

\* nearest integer to sample * 23 / AnalogMax
Rounded(sample) == (2 * 23 * sample + AnalogMax) \div (2 * AnalogMax)

\* C10 (as claimed): the position set from a sample is
\* round(sample * 23 / 1023).
C10_MapperRounds ==
    branch = "input" => player.paddle = Rounded(args[1])

\* C10 (amended): the position set from a sample is sample * 23 / 1023
\* rounded down; it is in [0, 23], 0 for sample 0 and 23 for sample 1023.
C10_MapperTruncates ==
    branch = "input"
    => /\ player.paddle = (args[1] * 23) \div AnalogMax
       /\ 0 <= player.paddle /\ player.paddle <= Height - PaddleHeight
       /\ args[1] = 0 => player.paddle = 0
       /\ args[1] = AnalogMax => player.paddle = Height - PaddleHeight

C10_Witness ==
    /\ branch = "input"
    /\ args[1] = AnalogMax - 1
    /\ player.paddle = Height - PaddleHeight - 1

----------------------------------------------------------------------------
\* Properties of one tick of the game, Spec

\* C11 (SpecTick): in a Running tick with the ball at the player paddle (x
\* in [PaddleWidth, PaddleWidth + BallWidth], moving left) the horizontal
\* speed becomes positive exactly when paddle - 4 < y < paddle + PaddleHeight
\* for the paddle position set in that tick, both bounds excluded; otherwise
\* it is unchanged; no score changes.
C11_PlayerPaddleBounce ==
    [][(currentState = "Running" /\ AtPlayerPaddle(ball))
       => LET pos == PositionFromPotentiometer(args'[2])
              hit == pos - 4 < ball.y /\ ball.y < pos + PaddleHeight
          IN  /\ player'.paddle = pos
              /\ hit => ball'.horizontalSpeed = 0 - ball.horizontalSpeed
              /\ hit <=> ball'.horizontalSpeed > 0
              /\ ~hit => ball'.horizontalSpeed = ball.horizontalSpeed
              /\ player'.score = player.score
              /\ cpu'.score = cpu.score]_vars

\* the player paddle let a ball pass that was exactly 4 above its top edge
C11_Witness ==
    /\ branch = "playerPaddle"
    /\ ball.horizontalSpeed < 0
    /\ ball.x = PaddleWidth + BallWidth + ball.horizontalSpeed
    /\ ball.y - ball.verticalSpeed = player.paddle - 4
    /\ player.paddle = PositionFromPotentiometer(args[2])

\* C12: in a Running tick with the ball at the CPU paddle (x in
\* [Width - PaddleWidth - BallWidth, Width - PaddleWidth], moving right) and
\* no goal taken, the horizontal speed becomes negative exactly when
\* paddle - 2 < y < paddle + PaddleHeight for the CPU paddle position after
\* the AI update of that tick; otherwise it is unchanged.
C12_CpuPaddleBounce ==
    [][(currentState = "Running" /\ AtCpuPaddle(ball) /\ ~PlayerGoal(ball))
       => LET pos == cpu'.paddle
              hit == pos - 2 < ball.y /\ ball.y < pos + PaddleHeight
          IN  /\ pos = IF 0 <= args'[1] /\ args'[1] <= Height
                       THEN args'[1] ELSE cpu.paddle
              /\ hit => ball'.horizontalSpeed = 0 - ball.horizontalSpeed
              /\ hit <=> ball'.horizontalSpeed < 0
              /\ ~hit => ball'.horizontalSpeed = ball.horizontalSpeed
              /\ player'.score = player.score
              /\ cpu'.score = cpu.score]_vars

\* the ball was returned by a CPU paddle that kept its previous position
C12_Witness ==
    /\ branch = "cpuPaddle"
    /\ ball.horizontalSpeed < 0
    /\ args[1] > Height
    /\ cpu.paddle < Height

\* C13: a Running tick sets the CPU paddle from a target within 3 of the
\* ball's y before the tick, sets the player paddle from the input, resolves
\* the collisions against both new paddle positions, and then advances the
\* ball once from the position and with the speeds the collisions left.
C13_TickOrder ==
    [][currentState = "Running"
       => LET target == args'[1]
              leftX == IF branch' = "playerGoal" /\ InsidePlayfield(ball)
                       THEN 3 * (Width \div 4)
                       ELSE IF branch' = "cpuGoal" /\ InsidePlayfield(ball)
                       THEN Width \div 4 ELSE ball.x
              leftY == IF branch' \in {"playerGoal", "cpuGoal"} /\ InsidePlayfield(ball)
                       THEN Height \div 2 ELSE ball.y
              turned == \/ branch' \in {"playerGoal", "cpuGoal"}
                        \/ /\ branch' = "playerPaddle"
                           /\ player'.paddle - 4 < ball.y
                           /\ ball.y < player'.paddle + PaddleHeight
                        \/ /\ branch' = "cpuPaddle"
                           /\ cpu'.paddle - 2 < ball.y
                           /\ ball.y < cpu'.paddle + PaddleHeight
          IN  /\ target - ball.y \in (0 - 3)..3
              /\ cpu'.paddle = IF 0 <= target /\ target <= Height
                               THEN target ELSE cpu.paddle
              /\ player'.paddle = PositionFromPotentiometer(args'[2])
              /\ ball'.horizontalSpeed = IF turned THEN 0 - ball.horizontalSpeed
                                         ELSE ball.horizontalSpeed
              /\ ball'.verticalSpeed = IF ball.y >= Height - BallHeight \/ ball.y < 0
                                       THEN 0 - ball.verticalSpeed
                                       ELSE ball.verticalSpeed
              /\ ball'.x = leftX + ball'.horizontalSpeed
              /\ ball'.y = leftY + ball'.verticalSpeed]_vars

\* the CPU paddle, set in this tick, returned a ball that the bottom wall
\* turned in the same tick
C13_Witness ==
    /\ branch = "cpuPaddle"
    /\ args[1] = cpu.paddle
    /\ ball = [x |-> Width - PaddleWidth - BallWidth - InitHorizontalSpeed,
               y |-> Height - BallHeight - InitVerticalSpeed,
               horizontalSpeed |-> 0 - InitHorizontalSpeed,
               verticalSpeed |-> 0 - InitVerticalSpeed]

\* C14: a Running tick negates the vertical speed exactly when the ball's y
\* is >= Height - BallHeight or < 0 before the tick, whatever the horizontal
\* outcome; otherwise the vertical speed is unchanged, as it is in GameOver.
C14_VerticalBounce ==
    [][/\ currentState = "Running"
          => ball'.verticalSpeed =
                 IF ball.y >= Height - BallHeight \/ ball.y < 0
                 THEN 0 - ball.verticalSpeed ELSE ball.verticalSpeed
       /\ currentState # "Running" => ball'.verticalSpeed = ball.verticalSpeed]_vars

\* the wall turned the ball in the tick of a left goal
C14_Witness ==
    /\ branch = "cpuGoal"
    /\ ball.y = Height - BallHeight - 2
    /\ ball.verticalSpeed < 0
    /\ ball.x = 0

\* C15: after a Running tick the CPU paddle is at ball.y + d, for the ball's
\* y before the tick and some d in -3..3, when that target is in [0, Height],
\* and where it was before when the target is outside [0, Height].
C15_AiTargetDirect ==
    [][currentState = "Running"
       => \E d \in (0 - 3)..3 :
             /\ args'[1] = ball.y + d
             /\ (0 <= ball.y + d /\ ball.y + d <= Height) => cpu'.paddle = ball.y + d
             /\ (ball.y + d < 0 \/ ball.y + d > Height) => cpu'.paddle = cpu.paddle]_vars

\* a target below 0 was refused and the paddle stayed off the bound
C15_Witness ==
    /\ branch # "start"
    /\ args[1] < 0
    /\ cpu.paddle > 0

\* C16: in every reachable state the ball is within one step of the
\* playfield, -4 <= x <= Width and -2 <= y <= Height - BallHeight, with
\* speeds of magnitude 4 and 2; a coordinate outside [0, Width] or
\* [0, Height] before a Running tick is inside after it.
C16_BallNearPlayfield ==
    /\ [](/\ 0 - InitHorizontalSpeed <= ball.x /\ ball.x <= Width
          /\ 0 - InitVerticalSpeed <= ball.y /\ ball.y <= Height - BallHeight
          /\ ball.horizontalSpeed \in {InitHorizontalSpeed, 0 - InitHorizontalSpeed}
          /\ ball.verticalSpeed \in {InitVerticalSpeed, 0 - InitVerticalSpeed})
    /\ [][currentState = "Running"
          => /\ (ball.x < 0 \/ ball.x > Width) => (0 <= ball'.x /\ ball'.x <= Width)
             /\ (ball.y < 0 \/ ball.y > Height) => (0 <= ball'.y /\ ball'.y <= Height)]_vars

\* the ball, past the left goal at x = -4 before the tick, is back at x = 0
\* after it, in a game that goes on
C16_Witness ==
    /\ currentState = "Running"
    /\ branch = "cpuGoal"
    /\ ball.x = 0
    /\ ball.horizontalSpeed > 0
    /\ cpu.score = 2
    /\ player.score = 1

\* C17: the tick after a tick that took a goal branch takes no goal branch
\* and changes no score; a score changes only in a tick that takes a goal
\* branch.
C17_NoConsecutiveGoals ==
    [][/\ branch \in {"playerGoal", "cpuGoal"}
          => /\ branch' \notin {"playerGoal", "cpuGoal"}
             /\ player'.score = player.score
             /\ cpu'.score = cpu.score
       /\ (player'.score # player.score \/ cpu'.score # cpu.score)
          => branch' \in {"playerGoal", "cpuGoal"}]_vars

\* the tick after a left goal (whose reset was skipped): the ball, turned at
\* x = -4, has moved on from x = 0 to x = 4
C17_Witness ==
    /\ branch = "none"
    /\ ball.x = InitHorizontalSpeed
    /\ ball.horizontalSpeed > 0
    /\ cpu.score = 1
    /\ player.score = 0

\* C18: in a Running tick with the ball at x = Width - PaddleWidth -
\* BallWidth moving right and an AI target ball.y + d in [0, Height], the
\* ball is returned exactly when d <= 1; when it is not returned (d = 2 or
\* d = 3), the player scores in the next tick.
C18_JitterDecidesDeflection ==
    [][/\ ( /\ currentState = "Running"
            /\ ball.x = Width - PaddleWidth - BallWidth
            /\ ball.horizontalSpeed > 0
            /\ 0 <= args'[1] /\ args'[1] <= Height )
          => /\ branch' = "cpuPaddle"
             /\ cpu'.paddle = args'[1]
             /\ ball'.horizontalSpeed < 0 <=> args'[1] - ball.y <= 1
             /\ args'[1] - ball.y \in {2, 3}
                => /\ ball'.horizontalSpeed = ball.horizontalSpeed
                   /\ ball'.x = Width
                   /\ player'.score = player.score
       /\ ( /\ currentState = "Running"
            /\ branch = "cpuPaddle"
            /\ ball.horizontalSpeed > 0 )
          => /\ branch' = "playerGoal"
             /\ player'.score = player.score + 1]_vars

\* the CPU paddle, set 3 below the ball in this tick, let the ball through to
\* x = Width
C18_Witness ==
    /\ branch = "cpuPaddle"
    /\ ball.x = Width
    /\ ball.horizontalSpeed > 0
    /\ cpu.paddle = args[1]
    /\ args[1] - (ball.y - ball.verticalSpeed) = 3

----------------------------------------------------------------------------
\* Termination of the game, SpecFair

\* C19: when loop() is called for ever and every jitter is drawn again and
\* again in the ticks with the ball at the CPU paddle moving right, the game
\* reaches GameOver, whatever the player's inputs.  Under SpecLoop, without
\* the fairness of the jitter, the same formula is violated by a rally that
\* never ends.
C19_EventuallyGameOver == <>(currentState = "GameOver")

\* the player has won without the CPU scoring
C19_Witness ==
    /\ currentState = "GameOver"
    /\ player.score = MaxScore
    /\ cpu.score = 0
    /\ message = "Winner!"

====
